---- MODULE Spec2Model ----
(***************************************************************************)
(* Model of DocumentationApp (vcstopdf-plus-image-version1.py), a          *)
(* Streamlit script.  Streamlit executes the whole script (render_app)     *)
(* from top to bottom once for every user interaction: a changed widget    *)
(* value or a pressed button.  A button reads True only in the run its     *)
(* press caused.  Every action below is therefore one user interaction     *)
(* followed by one complete execution of render_app.                       *)
(***************************************************************************)
EXTENDS Integers, Sequences, FiniteSets, TLC

VARIABLES
    \* st.session_state
    task_list, interpreter_dict, code_dict, terminal_dict, images_dict,
    \* widget values, kept by Streamlit between runs
    app_version_input, interpreter_version_input, image_upload_version,
    image_uploader, code_terminal_version, code_editor, terminal_output,
    display_version, export_type,
    \* environment
    now, disk,
    \* what the last run did and showed
    button, upload_results, displayed, messages, generator, artifact,
    \* history: per version, the interpreter strings of the accepted
    \* "Save Version Information" presses, in order
    version_saves

session_state == <<task_list, interpreter_dict, code_dict, terminal_dict, images_dict>>

widgets == <<app_version_input, interpreter_version_input, image_upload_version,
             image_uploader, code_terminal_version, code_editor, terminal_output,
             display_version, export_type>>

outputs == <<button, upload_results, displayed, messages, generator, artifact>>

vars == <<session_state, widgets, now, disk, outputs, version_saves>>

-----------------------------------------------------------------------------
(* Bounds *)

\* number of script runs (user interactions) explored
MaxRuns == 4

\* largest number of files the uploader holds at once
MaxBatch == 2

-----------------------------------------------------------------------------
(* Input domains *)

\* text typed into a version field; "" is the empty field
VersionIds == {"", "A", "B"}

InterpreterVersions == {"", "3.11"}

CodeTexts == {"", "print(1)"}

TerminalTexts == {"", "ok"}

ExportTypes == {"PDF", "Markdown", "HTML"}

\* an uploaded file: its name, whether PIL's verify() accepts its bytes, and
\* whether writing it to the version directory succeeds (makedirs and img.save
\* raise otherwise, e.g. an RGBA picture under a .jpg name)
UploadedFiles == {[name |-> "good.png", valid |-> TRUE, storable |-> TRUE],
                  [name |-> "bad.png", valid |-> FALSE, storable |-> FALSE],
                  [name |-> "rgba.jpg", valid |-> TRUE, storable |-> FALSE]}

RECURSIVE SeqsUpTo(_, _)
SeqsUpTo(S, n) ==
    IF n = 0 THEN {<<>>}
    ELSE LET shorter == SeqsUpTo(S, n - 1)
         IN  shorter \cup {Append(s, x) : s \in {t \in shorter : Len(t) = n - 1}, x \in S}

Batches == SeqsUpTo(UploadedFiles, MaxBatch)

Range(s) == {s[i] : i \in DOMAIN s}

\* Python's None as returned by save_uploaded_image; a file path is never empty
None == <<>>

-----------------------------------------------------------------------------
(* Python dict and list helpers *)

EmptyDict == [k \in {} |-> <<>>]

\* d[k] = val
DictSet(d, k, val) == [x \in DOMAIN d \cup {k} |-> IF x = k THEN val ELSE d[x]]

\* bug variant: the list is created anew on every save
AppendUnderKeyReset(d, k, item) == DictSet(d, k, <<item>>)

\* if k not in d: d[k] = [] ; d[k].append(item)
AppendUnderKey(d, k, item) ==
    DictSet(d, k, Append(IF k \in DOMAIN d THEN d[k] ELSE <<>>, item))

-----------------------------------------------------------------------------
(* _initialize_session_state *)

default_states ==
    [task_list |-> <<>>, code_dict |-> EmptyDict, interpreter_dict |-> EmptyDict,
     terminal_dict |-> EmptyDict, images_dict |-> EmptyDict]

-----------------------------------------------------------------------------
(* _render_version_section *)

\* bug variant: the membership test is missing
RegisterVersionAlways(tl, app_version) == Append(tl, app_version)

\* bug variant: a new version is put first
RegisterVersionFirst(tl, app_version) ==
    IF app_version \in Range(tl) THEN tl ELSE <<app_version>> \o tl

\* if app_version not in task_list: task_list.append(app_version)
RegisterVersion(tl, app_version) ==
    IF app_version \in Range(tl) THEN tl ELSE Append(tl, app_version)

\* bug variant: an existing record is kept (setdefault)
SetInterpreterInfoOnce(d, app_version, interpreter_version, timestamp) ==
    IF app_version \in DOMAIN d THEN d
    ELSE DictSet(d, app_version,
                 [version |-> interpreter_version, timestamp |-> timestamp])

\* interpreter_dict[app_version] = {'version': ..., 'timestamp': ...}
SetInterpreterInfo(d, app_version, interpreter_version, timestamp) ==
    DictSet(d, app_version, [version |-> interpreter_version, timestamp |-> timestamp])

\* the branch taken when "Save Version Information" is pressed
SaveVersionAccepted(btn, app_version) == btn = "SaveVersion" /\ app_version # ""

render_version_section(btn, w) ==
    /\ task_list' = IF SaveVersionAccepted(btn, w.app_version_input)
                    THEN RegisterVersion(task_list, w.app_version_input)
                    ELSE task_list
    /\ interpreter_dict' =
          IF SaveVersionAccepted(btn, w.app_version_input)
          THEN SetInterpreterInfo(interpreter_dict, w.app_version_input,
                                  w.interpreter_version_input, now)
          ELSE interpreter_dict
    /\ version_saves' =
          IF SaveVersionAccepted(btn, w.app_version_input)
          THEN AppendUnderKey(version_saves, w.app_version_input,
                              w.interpreter_version_input)
          ELSE version_saves

version_messages(btn, w) ==
    IF btn # "SaveVersion" THEN {}
    ELSE IF w.app_version_input # "" THEN {"Version information saved!"}
    ELSE {"Please enter an App Version"}

-----------------------------------------------------------------------------
(* save_uploaded_image *)

\* os.path.join(temp_dir, app_version, f"{uuid4()}_{name}"); the uuid is fresh
\* for every call: the run's time and the item's position stand for it
FilePath(app_version, uid, name) == <<app_version, uid, name>>

\* Image.open + verify raise on corrupt bytes; makedirs/img.save raise when the
\* write fails; both land in the except branch, which returns None.
\* Result: the returned value and the files that were completely written.
save_uploaded_image(uploaded_file, app_version, uid) ==
    IF ~uploaded_file.valid THEN [ret |-> None, written |-> {}]
    ELSE IF ~uploaded_file.storable THEN [ret |-> None, written |-> {}]
    ELSE LET filepath == FilePath(app_version, uid, uploaded_file.name)
         IN  [ret |-> filepath, written |-> {filepath}]

-----------------------------------------------------------------------------
(* _render_image_upload_section *)

\* bug variant: the "if saved_path" test is missing
RecordSavedPathAlways(d, app_version, saved_path) ==
    AppendUnderKey(d, app_version, saved_path)

\* the body of "for img in uploaded_images": if saved_path: ...append(saved_path)
RecordSavedPath(d, app_version, saved_path) ==
    IF saved_path # None THEN AppendUnderKey(d, app_version, saved_path) ELSE d

\* the calls save_uploaded_image makes for the batch, one per item, in order
UploadResults(batch, app_version, t) ==
    [i \in 1..Len(batch) |-> save_uploaded_image(batch[i], app_version, <<t, i>>)]

\* the for loop over the first n items of the batch
RECURSIVE UploadLoop(_, _, _, _)
UploadLoop(d, app_version, results, n) ==
    IF n = 0 THEN d
    ELSE RecordSavedPath(UploadLoop(d, app_version, results, n - 1),
                         app_version, results[n].ret)

\* the section runs its loop whenever the version field is non-empty and the
\* uploader holds files
UploadSectionActive(w) == w.image_upload_version # "" /\ w.image_uploader # <<>>

render_image_upload_section(w) ==
    LET results == IF UploadSectionActive(w)
                   THEN UploadResults(w.image_uploader, w.image_upload_version, now)
                   ELSE <<>>
    IN  /\ upload_results' = results
        /\ images_dict' = UploadLoop(images_dict, w.image_upload_version,
                                     results, Len(results))
        /\ disk' = disk \cup UNION {results[i].written : i \in 1..Len(results)}

-----------------------------------------------------------------------------
(* _render_code_and_terminal_section *)

\* the buttons exist only when the version field is non-empty
SaveCodePressed(btn, w) == btn = "SaveCode" /\ w.code_terminal_version # ""

SaveTerminalPressed(btn, w) == btn = "SaveTerminal" /\ w.code_terminal_version # ""

render_code_and_terminal_section(btn, w) ==
    /\ code_dict' = IF SaveCodePressed(btn, w)
                    THEN AppendUnderKey(code_dict, w.code_terminal_version, w.code_editor)
                    ELSE code_dict
    /\ terminal_dict' =
          IF SaveTerminalPressed(btn, w)
          THEN AppendUnderKey(terminal_dict, w.code_terminal_version, w.terminal_output)
          ELSE terminal_dict

-----------------------------------------------------------------------------
(* _display_saved_items *)

\* st.selectbox(..., ['All'] + task_list): a changed option list makes it a
\* new widget, which shows its first option
SelectboxValue(tl_before, tl_after, selected) ==
    IF tl_after # tl_before THEN "All" ELSE selected

versions_to_display(tl, app_version) ==
    IF app_version = "All" THEN tl ELSE <<app_version>>

-----------------------------------------------------------------------------
(* _render_export_options, _generate_pdf, _generate_markdown, _generate_html *)

\* the generator "Generate Document" dispatches to
ExportDispatch(tl, type) ==
    IF tl = <<>> THEN "none"
    ELSE IF type = "PDF" THEN "_generate_pdf"
    ELSE IF type = "Markdown" THEN "_generate_markdown"
    ELSE "_generate_html"

\* what a generator shows
GeneratorMessage(g) ==
    IF g = "_generate_pdf" THEN "PDF generation is not fully implemented yet."
    ELSE IF g = "_generate_markdown" THEN "Markdown generation is not fully implemented yet."
    ELSE "HTML generation is not fully implemented yet."

\* no generator offers a download
GeneratorArtifact(g) == "none"

export_messages(btn, tl, type) ==
    IF btn # "GenerateDocument" THEN {}
    ELSE IF tl = <<>> THEN {"No versions to export. Please save some content first."}
    ELSE {GeneratorMessage(ExportDispatch(tl, type))}

-----------------------------------------------------------------------------
(* render_app: one run of the script *)

\* widget values the user sees before the run
Widgets ==
    [app_version_input |-> app_version_input,
     interpreter_version_input |-> interpreter_version_input,
     image_upload_version |-> image_upload_version,
     image_uploader |-> image_uploader,
     code_terminal_version |-> code_terminal_version,
     code_editor |-> code_editor,
     terminal_output |-> terminal_output,
     display_version |-> display_version,
     export_type |-> export_type]

\* A run with button btn pressed ("none": the run a changed widget caused)
\* and widget values w.
render_app(btn, w) ==
    /\ now < MaxRuns
    /\ now' = now + 1
    /\ button' = btn
    /\ render_version_section(btn, w)
    /\ render_image_upload_section(w)
    /\ render_code_and_terminal_section(btn, w)
    /\ display_version' = SelectboxValue(task_list, task_list', w.display_version)
    /\ displayed' = versions_to_display(task_list', display_version')
    /\ generator' = IF btn = "GenerateDocument"
                    THEN ExportDispatch(task_list', w.export_type) ELSE "none"
    /\ artifact' = GeneratorArtifact(generator')
    /\ messages' = version_messages(btn, w)
                     \cup export_messages(btn, task_list', w.export_type)
    /\ app_version_input' = w.app_version_input
    /\ interpreter_version_input' = w.interpreter_version_input
    /\ image_upload_version' = w.image_upload_version
       \* a widget the run does not render loses its value
    /\ image_uploader' = IF w.image_upload_version = "" THEN <<>> ELSE w.image_uploader
    /\ code_terminal_version' = w.code_terminal_version
    /\ code_editor' = IF w.code_terminal_version = "" THEN "" ELSE w.code_editor
    /\ terminal_output' = IF w.code_terminal_version = "" THEN "" ELSE w.terminal_output
    /\ export_type' = w.export_type

-----------------------------------------------------------------------------
(* User interactions *)

EnterAppVersion ==
    \E v \in VersionIds \ {app_version_input} :
        render_app("none", [Widgets EXCEPT !.app_version_input = v])

EnterInterpreterVersion ==
    \E v \in InterpreterVersions \ {interpreter_version_input} :
        render_app("none", [Widgets EXCEPT !.interpreter_version_input = v])

EnterImageVersion ==
    \E v \in VersionIds \ {image_upload_version} :
        render_app("none", [Widgets EXCEPT !.image_upload_version = v])

\* the uploader is rendered only under a non-empty version
UploadImages ==
    /\ image_upload_version # ""
    /\ \E b \in Batches \ {image_uploader} :
          render_app("none", [Widgets EXCEPT !.image_uploader = b])

EnterCodeTerminalVersion ==
    \E v \in VersionIds \ {code_terminal_version} :
        render_app("none", [Widgets EXCEPT !.code_terminal_version = v])

EditCode ==
    /\ code_terminal_version # ""
    /\ \E c \in CodeTexts \ {code_editor} :
          render_app("none", [Widgets EXCEPT !.code_editor = c])

EditTerminalOutput ==
    /\ code_terminal_version # ""
    /\ \E t \in TerminalTexts \ {terminal_output} :
          render_app("none", [Widgets EXCEPT !.terminal_output = t])

SelectDisplayVersion ==
    \E s \in ({"All"} \cup Range(task_list)) \ {display_version} :
        render_app("none", [Widgets EXCEPT !.display_version = s])

SelectExportType ==
    \E t \in ExportTypes \ {export_type} :
        render_app("none", [Widgets EXCEPT !.export_type = t])

ClickSaveVersion ==
    \E btn \in {"SaveVersion"} : render_app(btn, Widgets)

ClickSaveCode ==
    /\ code_terminal_version # ""
    /\ \E btn \in {"SaveCode"} : render_app(btn, Widgets)

ClickSaveTerminal ==
    /\ code_terminal_version # ""
    /\ \E btn \in {"SaveTerminal"} : render_app(btn, Widgets)

ClickGenerateDocument ==
    \E btn \in {"GenerateDocument"} : render_app(btn, Widgets)

-----------------------------------------------------------------------------
(* The session after DocumentationApp() and the first render_app() *)

Init ==
    /\ task_list = default_states.task_list
    /\ interpreter_dict = default_states.interpreter_dict
    /\ code_dict = default_states.code_dict
    /\ terminal_dict = default_states.terminal_dict
    /\ images_dict = default_states.images_dict
    /\ app_version_input = ""
    /\ interpreter_version_input = ""
    /\ image_upload_version = ""
    /\ image_uploader = <<>>
    /\ code_terminal_version = ""
    /\ code_editor = ""
    /\ terminal_output = ""
    /\ display_version = "All"
    /\ export_type = "PDF"
    /\ now = 0
    /\ disk = {}
    /\ button = "none"
    /\ upload_results = <<>>
    /\ displayed = <<>>
    /\ messages = {}
    /\ generator = "none"
    /\ artifact = "none"
    /\ version_saves = EmptyDict

Next ==
    \/ EnterAppVersion
    \/ EnterInterpreterVersion
    \/ EnterImageVersion
    \/ UploadImages
    \/ EnterCodeTerminalVersion
    \/ EditCode
    \/ EditTerminalOutput
    \/ SelectDisplayVersion
    \/ SelectExportType
    \/ ClickSaveVersion
    \/ ClickSaveCode
    \/ ClickSaveTerminal
    \/ ClickGenerateDocument

Spec == Init /\ [][Next]_vars

-----------------------------------------------------------------------------
(* Properties *)

\* the per-version collection, empty when the version has none
Get(d, k) == IF k \in DOMAIN d THEN d[k] ELSE <<>>

IsPrefix(s, t) == Len(s) <= Len(t) /\ \A i \in 1..Len(s) : s[i] = t[i]

\* the positions of a run's results whose upload verified and was written
Stored(files, results) ==
    {i \in 1..Len(results) : files[i].valid /\ results[i].written # {}}

\* the paths of the items of `results` at the positions in `keep`, in order
RECURSIVE PathsAt(_, _, _)
PathsAt(results, keep, n) ==
    IF n = 0 THEN <<>>
    ELSE IF n \in keep THEN Append(PathsAt(results, keep, n - 1), results[n].ret)
    ELSE PathsAt(results, keep, n - 1)

AllPaths(results) == PathsAt(results, {i \in 1..Len(results) : results[i].ret # None},
                             Len(results))

StoreKeys ==
    Range(task_list) \cup DOMAIN interpreter_dict \cup DOMAIN code_dict
        \cup DOMAIN terminal_dict \cup DOMAIN images_dict

\* C1: every run extends each per-version collection at its end by exactly
\* the values saved under that version in the run, in save order (the code
\* text on Save Code, the terminal text on Save Terminal Output, the paths of
\* the run's successful image saves), and changes nothing already stored.
AppendOrderPreserved ==
    [][\A v \in VersionIds :
          /\ Get(code_dict', v) =
                Get(code_dict, v) \o
                  (IF button' = "SaveCode" /\ code_terminal_version' = v
                   THEN <<code_editor'>> ELSE <<>>)
          /\ Get(terminal_dict', v) =
                Get(terminal_dict, v) \o
                  (IF button' = "SaveTerminal" /\ code_terminal_version' = v
                   THEN <<terminal_output'>> ELSE <<>>)
          /\ Get(images_dict', v) =
                Get(images_dict, v) \o
                  (IF image_upload_version' = v THEN AllPaths(upload_results')
                   ELSE <<>>)]_vars

\* a version holds the same code text twice after two Save Code presses
AppendOrderWitness ==
    /\ button = "SaveCode"
    /\ \E v \in DOMAIN code_dict :
          Len(code_dict[v]) >= 2 /\ code_dict[v][1] = code_dict[v][2]

\* C2: every version that holds a code, terminal or image annotation is in
\* task_list.
SaveCreatesVersion ==
    \A v \in DOMAIN code_dict \cup DOMAIN terminal_dict \cup DOMAIN images_dict :
        v \in Range(task_list)

\* C3: task_list never holds a version twice.
RegisterIdempotent ==
    \A i, j \in 1..Len(task_list) : task_list[i] = task_list[j] => i = j

\* Save Version Information was accepted twice or more for one version
RegisterTwiceWitness ==
    /\ button = "SaveVersion"
    /\ app_version_input \in DOMAIN version_saves
    /\ Len(version_saves[app_version_input]) >= 2
    /\ app_version_input \in Range(task_list)

\* C4: task_list only grows at its end (no version removed, no two versions
\* swapped), and with 'All' selected the display loop visits exactly
\* task_list, in its order.
CreationOrderKept ==
    [][/\ IsPrefix(task_list, task_list')
       /\ display_version' = "All" => displayed' = task_list']_vars

\* two versions registered one after the other, displayed under 'All'
CreationOrderWitness ==
    /\ Len(task_list) = 2
    /\ display_version = "All"
    /\ displayed = task_list
    /\ button = "SaveVersion"

\* C5: an accepted Save Version Information leaves exactly one record for its
\* version, holding the interpreter string entered for this press (the last
\* of the strings saved for the version), and every other version's record
\* is as before.
InterpreterLastWriteWins ==
    [][\A v \in VersionIds :
          IF button' = "SaveVersion" /\ app_version_input' = v /\ v # ""
          THEN /\ v \in DOMAIN interpreter_dict'
               /\ interpreter_dict'[v].version = interpreter_version_input'
               /\ interpreter_dict'[v].version =
                     version_saves'[v][Len(version_saves'[v])]
          ELSE /\ (v \in DOMAIN interpreter_dict') = (v \in DOMAIN interpreter_dict)
               /\ v \in DOMAIN interpreter_dict =>
                     interpreter_dict'[v] = interpreter_dict[v]]_vars

\* a version saved twice with different interpreter strings
InterpreterOverwriteWitness ==
    \E v \in DOMAIN version_saves :
        /\ Len(version_saves[v]) = 2
        /\ version_saves[v][1] # version_saves[v][2]
        /\ interpreter_dict[v].version = version_saves[v][2]

\* C6: in every run the image collection of the entered version grows by
\* exactly the paths of the batch items that verified and were written, in
\* batch order; an item that failed either step adds nothing; every recorded
\* path is a written file.
UploadPerItemIsolation ==
    [][LET v == image_upload_version'
           stored == Stored(image_uploader', upload_results')
       IN  /\ upload_results' # <<>> => Len(upload_results') = Len(image_uploader')
           /\ \A i \in 1..Len(upload_results') :
                 (upload_results'[i].ret # None) = (i \in stored)
           /\ Get(images_dict', v) =
                 Get(images_dict, v)
                    \o PathsAt(upload_results', stored, Len(upload_results'))
           /\ Len(Get(images_dict', v)) = Len(Get(images_dict, v)) + Cardinality(stored)
           /\ \A u \in DOMAIN images_dict' : Range(images_dict'[u]) \subseteq disk']_vars

\* a batch in which a failed item stands before a recorded one
UploadIsolationWitness ==
    /\ Len(upload_results) = 2
    /\ upload_results[1].ret = None
    /\ upload_results[2].ret # None
    /\ image_upload_version \in DOMAIN images_dict
    /\ upload_results[2].ret \in Range(images_dict[image_upload_version])

\* C7: Generate Document with format PDF and a registered version offers a
\* PDF artifact.
PdfExportFunctional ==
    (button = "GenerateDocument" /\ export_type = "PDF" /\ task_list # <<>>)
        => artifact = "pdf"

\* C8: Generate Document with no registered version shows the warning,
\* invokes no generator, offers no artifact and leaves the store unchanged.
EmptySelectionHarmless ==
    [][(button' = "GenerateDocument" /\ task_list' = <<>>) =>
          /\ messages' = {"No versions to export. Please save some content first."}
          /\ generator' = "none"
          /\ artifact' = "none"
          /\ session_state' = session_state]_vars

\* C9: a run that starts with the uploader holding files all of which the
\* previous run recorded, and that leaves the uploader as it is, records no
\* image again.
UploadRecordedOnce ==
    [][(/\ image_uploader # <<>>
        /\ image_uploader' = image_uploader
        /\ Len(upload_results) = Len(image_uploader)
        /\ \A i \in 1..Len(upload_results) : upload_results[i].ret # None)
          => images_dict' = images_dict]_vars

\* C10: the empty string is in no part of the store, and Save Version
\* Information pressed with an empty App Version leaves the store unchanged.
EmptyVersionStoresNothing ==
    [][/\ "" \notin StoreKeys'
       /\ (button' = "SaveVersion" /\ app_version_input' = "")
             => session_state' = session_state]_vars

====
